---- MODULE Spec2Model ----
(***************************************************************************)
(* A model of rlutil's gridworld environment (envs/gridcraft/grid_env.py)  *)
(* and of its finite-horizon LQR solver (envs/lqr/lqr_solver.py).          *)
(*                                                                         *)
(* Five specifications share the module's variables:                       *)
(*   Spec      GridEnv with the default flags: reset(), step()             *)
(*   SpecFlags GridEnv with every zero_reward / terminate_on_reward        *)
(*   SpecT     TransitionModel.get_aprobs as a pure function               *)
(*   SpecObs   GridEnv.state_to_obs / obs_to_state (the one-hot codec)     *)
(*   SpecLQR   lqr_fin for dX = dU = 1                                     *)
(*                                                                         *)
(* Python floats are modelled as exact rationals [n, d] (d > 0, lowest     *)
(* terms); rounding is not modelled.  A Python exception is the field      *)
(* raised = TRUE of the result of the operation that raised it.            *)
(***************************************************************************)
EXTENDS Integers, Sequences, FiniteSets, TLC

VARIABLES gs, eps, frameskip, zero_reward, terminate_on_reward,
          one_hot, coordinatewise, eyes, state, ret, tm, codec, lqr

vars == <<gs, eps, frameskip, zero_reward, terminate_on_reward,
          one_hot, coordinatewise, eyes, state, ret, tm, codec, lqr>>

\* ------------------------------------------------------------- bounds
MaxCells == 4
MaxMarked == 2
MaxSkip == 3
MaxSide == 3
MaxBatch == 2
MaxT == 2

\* ------------------------------------------------- rational arithmetic
RECURSIVE GCD(_, _)
GCD(a, b) == IF b = 0 THEN a ELSE GCD(b, a % b)

Abs(i) == IF i < 0 THEN -i ELSE i

Rat(num, den) ==
    LET s == IF den < 0 THEN -1 ELSE 1
        g == GCD(Abs(num), Abs(den))
    IN  [n |-> (s * num) \div g, d |-> (s * den) \div g]

Zero == Rat(0, 1)
One == Rat(1, 1)
RAdd(p, q) == Rat(p.n * q.d + q.n * p.d, p.d * q.d)
RSub(p, q) == Rat(p.n * q.d - q.n * p.d, p.d * q.d)
RMul(p, q) == Rat(p.n * q.n, p.d * q.d)
RDiv(p, q) == Rat(p.n * q.d, p.d * q.n)
RNeg(p) == [n |-> -p.n, d |-> p.d]
RHalf(p) == Rat(p.n, 2 * p.d)
RGt(p, q) == p.n * q.d > q.n * p.d

\* --------------------------------------------------------------- tiles
EMPTY == "EMPTY"
WALL == "WALL"
START == "START"
REWARD == "REWARD"
REWARD2 == "REWARD2"
REWARD3 == "REWARD3"
REWARD4 == "REWARD4"
OUT_OF_BOUNDS == "OUT_OF_BOUNDS"

\* Python's None (frameskip=None; self.__state before the first reset()).
None == -1

\* ------------------------------------------------------------- actions
ACT_NOOP == 0
ACT_UP == 1
ACT_DOWN == 2
ACT_LEFT == 3
ACT_RIGHT == 4

ACT_DICT ==
    [m \in {ACT_NOOP, ACT_UP, ACT_DOWN, ACT_LEFT, ACT_RIGHT} |->
        CASE m = ACT_NOOP  -> <<0, 0>>
          [] m = ACT_UP    -> <<0, -1>>
          [] m = ACT_LEFT  -> <<-1, 0>>
          [] m = ACT_RIGHT -> <<1, 0>>
          [] m = ACT_DOWN  -> <<0, 1>>]

Actions == DOMAIN ACT_DICT

\* ------------------------------------------------------------ GridSpec
Cells(w, h) == (0 .. (w - 1)) \X (0 .. (h - 1))

\* A w x h grid, EMPTY except for the cells of marks (a function cell -> tile).
MkGrid(w, h, marks) ==
    [width |-> w, height |-> h,
     spec |-> [c \in Cells(w, h) |->
                 IF c \in DOMAIN marks THEN marks[c] ELSE EMPTY]]

GridLen(g) == g.width * g.height

out_of_bounds(g, xy) ==
    xy[1] < 0 \/ xy[1] >= g.width \/ xy[2] < 0 \/ xy[2] >= g.height

GetItem(g, xy) == g.spec[xy]

idx_to_xy(g, idx) == <<idx % g.width, idx \div g.width>>

xy_to_idx(g, xy) == xy[1] + xy[2] * g.width

VAdd(xy, d) == <<xy[1] + d[1], xy[2] + d[2]>>

get_neighbors(g, s) ==
    LET k == idx_to_xy(g, s)
        offsets == << <<0, -1>>, <<0, 1>>, <<-1, 0>>, <<1, 0>> >>
    IN  [i \in 1 .. 4 |->
            IF out_of_bounds(g, VAdd(k, offsets[i])) THEN OUT_OF_BOUNDS
            ELSE GetItem(g, VAdd(k, offsets[i]))]

\* ----------------------------------------------------- TransitionModel
\* Variant of get_legal_moves: the bounds test without the wall test.
get_legal_moves_nowall(g, s) ==
    LET xy == idx_to_xy(g, s)
    IN  {move \in Actions : ~out_of_bounds(g, VAdd(xy, ACT_DICT[move]))}

\* The moves whose destination is in bounds and not WALL (NOOP included).
get_legal_moves(g, s) ==
    LET xy == idx_to_xy(g, s)
    IN  {move \in Actions :
            /\ ~out_of_bounds(g, VAdd(xy, ACT_DICT[move]))
            /\ GetItem(g, VAdd(xy, ACT_DICT[move])) # WALL}

\* eps / (len(legal_moves) - 1) raises ZeroDivisionError when a is the only
\* legal move.
get_aprobs(g, e, s, a) ==
    LET legal_moves == get_legal_moves(g, s)
        n == Cardinality(legal_moves)
    IN  IF a \in legal_moves
        THEN IF n - 1 = 0
             THEN [raised |-> TRUE, p |-> [m \in Actions |-> Zero]]
             ELSE [raised |-> FALSE,
                   p |-> [m \in Actions |->
                            IF m = a THEN RSub(One, e)
                            ELSE IF m \in legal_moves
                                 THEN RDiv(e, Rat(n - 1, 1))
                                 ELSE Zero]]
        ELSE [raised |-> FALSE,
              p |-> [m \in Actions |-> IF m = ACT_NOOP THEN One ELSE Zero]]

\* ------------------------------------------------------ RewardFunction
rew_map ==
    [t \in {REWARD, REWARD2, REWARD3, REWARD4} |->
        CASE t = REWARD  -> Rat(1, 1)
          [] t = REWARD2 -> Rat(1, 2)
          [] t = REWARD3 -> Rat(1, 10)
          [] t = REWARD4 -> Rat(-1, 1)]

\* Variant of RewardFunction: the tile of the current state s.
RewardFunction_from_s(g, s, a, ns) ==
    LET val == GetItem(g, idx_to_xy(g, s))
    IN  IF val \in DOMAIN rew_map THEN rew_map[val] ELSE Zero

\* The reward of the tile at the next state ns, 0.0 for a tile not in rew_map.
RewardFunction(g, s, a, ns) ==
    LET val == GetItem(g, idx_to_xy(g, ns))
    IN  IF val \in DOMAIN rew_map THEN rew_map[val] ELSE Zero

\* ------------------------------------------- numpy arrays and one-hot
\* A numpy array: its shape and its values (a sequence for a 1-D array, a
\* sequence of rows for a 2-D array).
Arr1(v) == [shape |-> <<Len(v)>>, v |-> v]
Arr2(rows, dim) == [shape |-> <<Len(rows), dim>>, v |-> rows]

flat_to_one_hot(val, ndim) == [i \in 1 .. ndim |-> IF i = val + 1 THEN 1 ELSE 0]

\* argmax of one row: the 0-based index of the first largest entry.
ArgMax(row) ==
    IF Len(row) = 0 THEN None
    ELSE (CHOOSE i \in 1 .. Len(row) :
             /\ \A j \in 1 .. Len(row) : row[j] <= row[i]
             /\ \A j \in 1 .. (i - 1) : row[j] < row[i]) - 1

one_hot_to_flat(rows) == [i \in 1 .. Len(rows) |-> ArgMax(rows[i])]

\* ------------------------------------------------- GridEnv: the codec
state_to_obs(g, oh, cw, ey, s) ==
    IF oh
    THEN LET xy == idx_to_xy(g, s)
             base == IF cw
                     THEN flat_to_one_hot(xy[1], g.width)
                          \o flat_to_one_hot(xy[2], g.height)
                     ELSE flat_to_one_hot(s, GridLen(g))
             neighbors == get_neighbors(g, s)
             wall_eyes == [i \in 1 .. 4 |->
                             IF neighbors[i] \in {WALL, OUT_OF_BOUNDS}
                             THEN 1 ELSE 0]
             rew_eyes == [i \in 1 .. 4 |->
                             IF neighbors[i] \in {REWARD} THEN 1 ELSE 0]
         IN  Arr1(IF ey THEN wall_eyes \o rew_eyes \o base ELSE base)
    ELSE s

Drop(row, k) == SubSeq(row, k + 1, Len(row))
Take(row, k) == SubSeq(row, 1, IF k < Len(row) THEN k ELSE Len(row))

\* Variant of obs_to_state: strips 4 eye features instead of 8.
obs_to_state_eyes4(g, oh, cw, ey, obs) ==
    LET expanded == Len(obs.shape) = 1
        rows0 == IF expanded THEN <<obs.v>> ELSE obs.v
        rows1 == IF ey THEN [i \in 1 .. Len(rows0) |-> Drop(rows0[i], 4)]
                 ELSE rows0
        x == one_hot_to_flat([i \in 1 .. Len(rows1) |-> Take(rows1[i], g.width)])
        y == one_hot_to_flat([i \in 1 .. Len(rows1) |-> Drop(rows1[i], g.width)])
        st == IF oh
              THEN IF cw
                   THEN [i \in 1 .. Len(rows1) |-> xy_to_idx(g, <<x[i], y[i]>>)]
                   ELSE one_hot_to_flat(rows1)
              ELSE rows0
    IN  IF expanded THEN st[1] ELSE st

obs_to_state(g, oh, cw, ey, obs) ==
    LET expanded == Len(obs.shape) = 1
        rows0 == IF expanded THEN <<obs.v>> ELSE obs.v
        rows1 == IF ey THEN [i \in 1 .. Len(rows0) |-> Drop(rows0[i], 8)]
                 ELSE rows0
        x == one_hot_to_flat([i \in 1 .. Len(rows1) |-> Take(rows1[i], g.width)])
        y == one_hot_to_flat([i \in 1 .. Len(rows1) |-> Drop(rows1[i], g.width)])
        st == IF oh
              THEN IF cw
                   THEN [i \in 1 .. Len(rows1) |-> xy_to_idx(g, <<x[i], y[i]>>)]
                   ELSE one_hot_to_flat(rows1)
              ELSE rows0
    IN  IF expanded THEN st[1] ELSE st

\* ------------------------------------------------ GridEnv: transitions
\* The outcomes of one step_stateless(s, a): the exception of get_aprobs, or
\* one (next_s_idx, rew) for every action np.random.choice can draw.
step_stateless(g, e, s, a) ==
    LET aprobs == get_aprobs(g, e, s, a)
    IN  IF aprobs.raised
        THEN {[raised |-> TRUE, next_s_idx |-> s, rew |-> Zero]}
        ELSE {[raised |-> FALSE,
               next_s_idx |-> xy_to_idx(g, VAdd(idx_to_xy(g, s), ACT_DICT[samp_a])),
               rew |-> RewardFunction(g, s, samp_a,
                          xy_to_idx(g, VAdd(idx_to_xy(g, s), ACT_DICT[samp_a])))] :
                 samp_a \in {m \in Actions : RGt(aprobs.p[m], Zero)}}

\* The frameskip loop of step(): n more micro-steps from ns.
RECURSIVE FrameskipLoop(_, _, _, _, _, _, _)
FrameskipLoop(g, e, a, n, ns, r, states_visited) ==
    IF n = 0
    THEN {[raised |-> FALSE, ns |-> ns, r |-> r, states_visited |-> states_visited]}
    ELSE UNION {IF o.raised
                THEN {[raised |-> TRUE, ns |-> ns, r |-> r,
                       states_visited |-> states_visited]}
                ELSE FrameskipLoop(g, e, a, n - 1, o.next_s_idx, o.rew,
                                   Append(states_visited, o.next_s_idx)) :
                   o \in step_stateless(g, e, ns, a)}

\* -------------------------------------------------- GridEnv: step/reset
NoInfo ==
    [keys |-> {}, frameskip_states |-> <<>>, frameskip_observations |-> <<>>,
     frameskip_actions |-> <<>>, task_reward |-> Zero]

NoRet ==
    [op |-> "none", a |-> None, from |-> None, raised |-> FALSE, obs |-> None,
     r |-> Zero, done |-> FALSE, info |-> NoInfo]

\* The runs of the transition part of step(a) (lines 169-181).
StepRuns(g, e, fs, st, a) ==
    IF fs # None
    THEN FrameskipLoop(g, e, a, fs, st, Zero, <<>>)
    ELSE {[raised |-> o.raised, ns |-> o.next_s_idx, r |-> o.rew,
           states_visited |-> <<>>] : o \in step_stateless(g, e, st, a)}

\* zero_reward masking and terminate_on_reward (lines 185-192): the reported
\* reward, done and the task_reward entry of info.
StepFlags(zr, tor, r) ==
    LET r_out == IF zr THEN Zero ELSE r
    IN  [r |-> r_out,
         done |-> tor /\ RGt(r_out, Zero),
         has_task |-> zr,
         task_reward |-> IF zr THEN r ELSE Zero]

\* What step(a) returns for one run that did not raise.
StepReturn(g, fs, zr, tor, oh, cw, ey, st, a, run) ==
    LET fl == StepFlags(zr, tor, run.r)
        fskeys == IF fs # None
                  THEN {"frameskip_states", "frameskip_observations",
                        "frameskip_actions"}
                  ELSE {}
    IN  [op |-> "step", a |-> a, from |-> st, raised |-> FALSE,
         obs |-> state_to_obs(g, oh, cw, ey, run.ns),
         r |-> fl.r, done |-> fl.done,
         info |-> [keys |-> fskeys \cup (IF fl.has_task THEN {"task_reward"} ELSE {}),
                   frameskip_states |-> run.states_visited,
                   frameskip_observations |->
                       [i \in 1 .. Len(run.states_visited) |->
                           state_to_obs(g, oh, cw, ey, run.states_visited[i])],
                   frameskip_actions |->
                       IF fs # None THEN [i \in 1 .. fs |-> a] ELSE <<>>,
                   task_reward |-> fl.task_reward]]

Raised(op, st, a) ==
    [NoRet EXCEPT !.op = op, !.a = a, !.from = st, !.raised = TRUE]

\* step(a).  Before the first reset() self.__state does not exist and step
\* raises AttributeError with nothing changed: the action is not enabled.
Step(a) ==
    /\ state # None
    /\ \E run \in StepRuns(gs, eps, frameskip, state, a) :
          IF run.raised
          THEN /\ ret' = Raised("step", state, a)
               /\ UNCHANGED state
          ELSE /\ state' = run.ns
               /\ ret' = StepReturn(gs, frameskip, zero_reward, terminate_on_reward,
                                    one_hot, coordinatewise, eyes, state, a, run)
    /\ UNCHANGED <<gs, eps, frameskip, zero_reward, terminate_on_reward,
                   one_hot, coordinatewise, eyes, tm, codec, lqr>>

\* Variant of start_idxs: every cell that is not a wall.
start_idxs_any(g) == {xy \in DOMAIN g.spec : g.spec[xy] # WALL}

\* The cells reset() draws from: np.where(self.gs.spec == START).
start_idxs(g) == {xy \in DOMAIN g.spec : g.spec[xy] = START}

\* reset(): np.random.randint(0, 0) raises ValueError on a grid without START.
Reset ==
    /\ IF start_idxs(gs) = {}
       THEN /\ ret' = Raised("reset", state, None)
            /\ UNCHANGED state
       ELSE \E start_idx \in start_idxs(gs) :
               /\ state' = xy_to_idx(gs, start_idx)
               /\ ret' = [NoRet EXCEPT !.op = "reset", !.from = state,
                             !.obs = state_to_obs(gs, one_hot, coordinatewise, eyes,
                                                  xy_to_idx(gs, start_idx))]
    /\ UNCHANGED <<gs, eps, frameskip, zero_reward, terminate_on_reward,
                   one_hot, coordinatewise, eyes, tm, codec, lqr>>

\* ------------------------------------------------------- input grids
MarkTiles == {WALL, START, REWARD, REWARD2, REWARD3, REWARD4}

\* Every grid of at most maxCells cells with at most maxMarked cells that are
\* not EMPTY, their tiles drawn from tiles.
Grids(maxCells, maxMarked, tiles) ==
    UNION {UNION {{MkGrid(w, h, marks) : marks \in [m -> tiles]} :
                      m \in {c \in SUBSET Cells(w, h) : Cardinality(c) <= maxMarked}} :
              <<w, h>> \in {wh \in (1 .. maxCells) \X (1 .. maxCells) :
                              wh[1] * wh[2] <= maxCells}}

\* ------------------------------------------------------------ GridEnv
Idle == [pc |-> "idle"]

\* GridEnv.__init__ with zero_reward and terminate_on_reward drawn from flags:
\* teps must be 0.0 (the constructor's assertion); the observation is the raw
\* state index (one_hot=False, the default).
GridEnvInit(flags) ==
    /\ gs \in Grids(MaxCells, MaxMarked, MarkTiles)
    /\ eps = Zero
    /\ frameskip \in {None, MaxSkip}
    /\ zero_reward \in flags
    /\ terminate_on_reward \in flags
    /\ one_hot = FALSE
    /\ coordinatewise = FALSE
    /\ eyes = FALSE
    /\ state = None
    /\ ret = NoRet
    /\ tm = Idle
    /\ codec = Idle
    /\ lqr = Idle

\* The default environment: zero_reward=False, terminate_on_reward=False.
Init == GridEnvInit({FALSE})

\* Every setting of zero_reward and terminate_on_reward.
InitFlags == GridEnvInit(BOOLEAN)

Next ==
    \/ Reset
    \/ \E a \in Actions : Step(a)

Spec == Init /\ [][Next]_vars

SpecFlags == InitFlags /\ [][Next]_vars

\* ---------------------------------------------- the claims' vocabulary
\* What the specification calls a legal action, a blocked micro-step and the
\* reward table, written out independently of the model above.
ClaimLegal(g, s, a) ==
    LET dest == VAdd(<<s % g.width, s \div g.width>>, ACT_DICT[a])
    IN  /\ dest[1] \in 0 .. (g.width - 1)
        /\ dest[2] \in 0 .. (g.height - 1)
        /\ g.spec[dest] # WALL

ClaimMove(g, s, a) ==
    IF ClaimLegal(g, s, a)
    THEN s + ACT_DICT[a][1] + g.width * ACT_DICT[a][2]
    ELSE s

TileAt(g, s) == g.spec[<<s % g.width, s \div g.width>>]

ClaimReward(tile) ==
    CASE tile = REWARD  -> [n |-> 1, d |-> 1]
      [] tile = REWARD2 -> [n |-> 1, d |-> 2]
      [] tile = REWARD3 -> [n |-> 1, d |-> 10]
      [] tile = REWARD4 -> [n |-> -1, d |-> 1]
      [] OTHER          -> [n |-> 0, d |-> 1]

FreeCell(g, s) == s \in 0 .. (GridLen(g) - 1) /\ TileAt(g, s) # WALL

OneHotOn(a) == [m \in Actions |-> IF m = a THEN One ELSE Zero]

\* The reward the reward function computed for the last transition of a
\* step: the reported reward, or info['task_reward'] under zero_reward.
Realized == IF zero_reward THEN ret.info.task_reward ELSE ret.r

Returned == ret.op = "step" /\ ~ret.raised

\* The 1x3 grid [START, EMPTY, REWARD].
RewardCorridor ==
    MkGrid(3, 1, [c \in {<<0, 0>>, <<2, 0>>} |->
                    IF c = <<0, 0>> THEN START ELSE REWARD])

\* ------------------------------------------------------------------ C3
\* C3: with eps = 0, get_aprobs(s, a) of every non-wall state s and action a
\* is one-hot on a when a is legal and one-hot on NOOP otherwise; a single
\* step with a legal action moves the state by the action's displacement and
\* a step into a wall or off the grid leaves the state unchanged.
C3_DeterministicStep ==
    /\ \A s \in 0 .. (GridLen(gs) - 1) : \A a \in Actions :
          TileAt(gs, s) # WALL =>
             /\ ~get_aprobs(gs, Zero, s, a).raised
             /\ get_aprobs(gs, Zero, s, a).p =
                   OneHotOn(IF ClaimLegal(gs, s, a) THEN a ELSE ACT_NOOP)
    /\ (ret.op = "step" /\ frameskip = None) =>
          /\ ~ret.raised
          /\ state = ClaimMove(gs, ret.from, ret.a)

\* ------------------------------------------------------------------ C4
\* C4: after reset() and after any sequence of step() calls the internal
\* state indexes an in-bounds cell that is not WALL, and so does every state
\* recorded in info['frameskip_states'].
C4_StateIsFreeCell ==
    /\ state # None => FreeCell(gs, state)
    /\ \A i \in 1 .. Len(ret.info.frameskip_states) :
          FreeCell(gs, ret.info.frameskip_states[i])

\* A frameskip step whose action ran into a wall after at least one move.
C4_Witness ==
    /\ Returned
    /\ frameskip # None
    /\ ret.info.frameskip_states[1] # ret.from
    /\ LET dest == VAdd(idx_to_xy(gs, state), ACT_DICT[ret.a])
       IN  ~out_of_bounds(gs, dest) /\ gs.spec[dest] = WALL

\* ------------------------------------------------------------------ C5
\* C5: with terminate_on_reward, step() returns done = TRUE exactly when the
\* reward the reward function computed for the final transition is > 0,
\* whatever zero_reward is; under zero_reward the reported reward is 0 and the
\* true reward is info['task_reward']; without terminate_on_reward done is
\* FALSE.
C5_TerminateOnReward ==
    Returned =>
       /\ terminate_on_reward =>
             (ret.done <=> RGt(ClaimReward(TileAt(gs, state)), Zero))
       /\ ~terminate_on_reward => ~ret.done
       /\ zero_reward =>
             /\ ret.r = Zero
             /\ "task_reward" \in ret.info.keys
             /\ ret.info.task_reward = ClaimReward(TileAt(gs, state))

\* ------------------------------------------------------------------ C6
\* C6: with frameskip = N one step(a) performs exactly N micro-steps with the
\* same action: N recorded states, the i-th reached from the (i-1)-th by a (a
\* blocked micro-step repeats the state), the final state is the N-th entry,
\* frameskip_actions is N copies of a and the reward is that of the N-th
\* micro-step; without frameskip one transition and no frameskip entries.
C6_FrameskipTrace ==
    ret.op = "step" =>
       /\ ~ret.raised
       /\ Realized = ClaimReward(TileAt(gs, state))
       /\ IF frameskip # None
          THEN /\ Len(ret.info.frameskip_states) = frameskip
               /\ \A i \in 1 .. Len(ret.info.frameskip_states) :
                     ret.info.frameskip_states[i] =
                        ClaimMove(gs, IF i = 1 THEN ret.from
                                      ELSE ret.info.frameskip_states[i - 1], ret.a)
               /\ state = ret.info.frameskip_states[frameskip]
               /\ ret.info.frameskip_actions = [i \in 1 .. frameskip |-> ret.a]
          ELSE /\ state = ClaimMove(gs, ret.from, ret.a)
               /\ ret.info.keys \cap {"frameskip_states", "frameskip_observations",
                                      "frameskip_actions"} = {}

\* ------------------------------------------------------------------ C8
\* C8: on a grid with a START tile every reset() leaves the state on a START
\* tile and returns that state's encoding, also after steps; and every START
\* tile is a possible outcome of a reset.
C8_ResetLandsOnStart ==
    /\ (ret.op = "reset" /\ start_idxs(gs) # {}) =>
          /\ ~ret.raised
          /\ state # None
          /\ TileAt(gs, state) = START
          /\ ret.obs = state
    /\ \A c \in {x \in DOMAIN gs.spec : gs.spec[x] = START} :
          ENABLED (Reset /\ state' = c[1] + gs.width * c[2])

\* A reset after the agent had stepped off the START tiles, on a grid with
\* two of them.
C8_Witness ==
    /\ ret.op = "reset"
    /\ ~ret.raised
    /\ ret.from # None
    /\ TileAt(gs, ret.from) # START
    /\ Cardinality({x \in DOMAIN gs.spec : gs.spec[x] = START}) = 2

\* ------------------------------------------------------------------ C9
\* C9: the reward of a transition is the table's reward of the tile at the
\* next state (REWARD 1, REWARD2 1/2, REWARD3 1/10, REWARD4 -1) and 0 for any
\* other tile; on [START, EMPTY, REWARD] step(RIGHT) from index 0 returns 0
\* and the next step(RIGHT) returns 1.
C9_RewardOfNextTile ==
    /\ Returned => Realized = ClaimReward(TileAt(gs, state))
    /\ (/\ Returned
        /\ gs = RewardCorridor
        /\ frameskip = None
        /\ ~zero_reward
        /\ ret.a = ACT_RIGHT) =>
          /\ ret.from = 0 => (ret.r = Zero /\ state = 1)
          /\ ret.from = 1 => (ret.r = One /\ state = 2)

\* The second step(RIGHT) of the scenario.
C9_Witness ==
    /\ Returned
    /\ gs = RewardCorridor
    /\ frameskip = None
    /\ ~zero_reward
    /\ ret.a = ACT_RIGHT
    /\ ret.from = 1
    /\ state = 2
    /\ ret.r = One

\* ------------------------------------------------------------- SpecT
\* TransitionModel(gridspec, eps).get_aprobs(s, a) on its own: every grid of
\* at most MaxSide x MaxSide cells with at most MaxMarked walls, every cell s
\* and every action a.
WallGrids(maxSide, maxMarked) ==
    UNION {{MkGrid(w, h, [c \in m |-> WALL]) :
               m \in {c \in SUBSET Cells(w, h) : Cardinality(c) <= maxMarked}} :
              <<w, h>> \in (1 .. maxSide) \X (1 .. maxSide)}

EpsValues == {Zero, Rat(1, 5), Rat(1, 2), One}

InitT ==
    /\ gs \in WallGrids(MaxSide, MaxMarked)
    /\ eps \in EpsValues
    /\ frameskip = None
    /\ zero_reward = FALSE
    /\ terminate_on_reward = FALSE
    /\ one_hot = FALSE
    /\ coordinatewise = FALSE
    /\ eyes = FALSE
    /\ state = None
    /\ ret = NoRet
    /\ tm = Idle
    /\ codec = Idle
    /\ lqr = Idle

GetAprobs(s, a) ==
    /\ tm.pc = "idle"
    /\ tm' = [pc |-> "done", s |-> s, a |-> a, out |-> get_aprobs(gs, eps, s, a)]
    /\ UNCHANGED <<gs, eps, frameskip, zero_reward, terminate_on_reward,
                   one_hot, coordinatewise, eyes, state, ret, codec, lqr>>

NextT == \E s \in 0 .. (GridLen(gs) - 1) : \E a \in Actions : GetAprobs(s, a)

SpecT == InitT /\ [][NextT]_vars

RSum(p) ==
    RAdd(p[ACT_NOOP], RAdd(p[ACT_UP], RAdd(p[ACT_DOWN],
         RAdd(p[ACT_LEFT], p[ACT_RIGHT]))))

\* ------------------------------------------------------------------ C1
\* C1: for every non-wall state s and action a, get_aprobs(s, a) returns a
\* vector over the 5 actions that sums to 1 and is 0 on every action that is
\* not legal from s, except for the fallback that puts probability 1 on NOOP
\* when a itself is not legal.
C1_AprobsIsDistribution ==
    (tm.pc = "done" /\ TileAt(gs, tm.s) # WALL) =>
       /\ ~tm.out.raised
       /\ RSum(tm.out.p) = One
       /\ \A m \in Actions :
             ~ClaimLegal(gs, tm.s, m) =>
                \/ tm.out.p[m] = Zero
                \/ /\ ~ClaimLegal(gs, tm.s, tm.a)
                   /\ tm.out.p = OneHotOn(ACT_NOOP)

\* ------------------------------------------------------------------ C2
\* C2: for every state s with exactly one legal action and every action a,
\* get_aprobs(s, a) returns a distribution without raising a division error
\* and gives probability 1 to the sole legal action.
C2_SoleLegalAction ==
    (tm.pc = "done" /\ Cardinality({m \in Actions : ClaimLegal(gs, tm.s, m)}) = 1) =>
       /\ ~tm.out.raised
       /\ \A m \in Actions : ClaimLegal(gs, tm.s, m) => tm.out.p[m] = One

\* ----------------------------------------------------------- SpecObs
\* The one-hot codec of a GridEnv built with one_hot=True: state_to_obs of one
\* state (a 1-D observation) or of a batch of states stacked into a 2-D array
\* (as step() stacks frameskip_observations), then obs_to_state.
EyeTiles == {WALL, REWARD}

InitObs ==
    /\ gs \in Grids(MaxCells, MaxMarked, EyeTiles)
    /\ eps = Zero
    /\ frameskip = None
    /\ zero_reward = FALSE
    /\ terminate_on_reward = FALSE
    /\ one_hot = TRUE
    /\ coordinatewise \in BOOLEAN
    /\ eyes \in BOOLEAN
    /\ state = None
    /\ ret = NoRet
    /\ tm = Idle
    /\ codec = Idle
    /\ lqr = Idle

Encode(s) ==
    /\ codec.pc = "idle"
    /\ codec' = [pc |-> "encoded", batched |-> FALSE, states |-> <<s>>,
                 obs |-> state_to_obs(gs, one_hot, coordinatewise, eyes, s),
                 out |-> None]
    /\ UNCHANGED <<gs, eps, frameskip, zero_reward, terminate_on_reward,
                   one_hot, coordinatewise, eyes, state, ret, tm, lqr>>

EncodeBatch(states) ==
    /\ codec.pc = "idle"
    /\ codec' = [pc |-> "encoded", batched |-> TRUE, states |-> states,
                 obs |-> Arr2([i \in 1 .. Len(states) |->
                                  state_to_obs(gs, one_hot, coordinatewise, eyes,
                                               states[i]).v],
                              Len(state_to_obs(gs, one_hot, coordinatewise, eyes,
                                               states[1]).v)),
                 out |-> None]
    /\ UNCHANGED <<gs, eps, frameskip, zero_reward, terminate_on_reward,
                   one_hot, coordinatewise, eyes, state, ret, tm, lqr>>

Decode ==
    /\ codec.pc = "encoded"
    /\ codec' = [codec EXCEPT !.pc = "decoded",
                    !.out = obs_to_state(gs, one_hot, coordinatewise, eyes, codec.obs)]
    /\ UNCHANGED <<gs, eps, frameskip, zero_reward, terminate_on_reward,
                   one_hot, coordinatewise, eyes, state, ret, tm, lqr>>

NextObs ==
    \/ \E s \in 0 .. (GridLen(gs) - 1) : Encode(s)
    \/ \E n \in 1 .. MaxBatch :
          \E states \in [1 .. n -> 0 .. (GridLen(gs) - 1)] : EncodeBatch(states)
    \/ Decode

SpecObs == InitObs /\ [][NextObs]_vars

\* ------------------------------------------------------------------ C7
\* C7: obs_to_state(state_to_obs(s)) = s for every state of every grid in each
\* of the 4 one-hot variants (flat or coordinate-wise, with or without the 8
\* eye features); a batch of N stacked observations decodes to the N states
\* in order, a single 1-D observation to a single state.
C7_RoundTrip ==
    codec.pc = "decoded" =>
       IF codec.batched
       THEN /\ codec.obs.shape = <<Len(codec.states), Len(codec.obs.v[1])>>
            /\ Len(codec.out) = Len(codec.states)
            /\ \A i \in 1 .. Len(codec.states) : codec.out[i] = codec.states[i]
       ELSE /\ Len(codec.obs.shape) = 1
            /\ codec.out = codec.states[1]

\* A decoded batch of two different states of a 2x2 grid, coordinate-wise with
\* eyes, one of which sees a reward tile.
C7_Witness ==
    /\ codec.pc = "decoded"
    /\ codec.batched
    /\ coordinatewise
    /\ eyes
    /\ gs.width = 2
    /\ gs.height = 2
    /\ Len(codec.states) = 2
    /\ codec.states[1] # codec.states[2]
    /\ \E i \in 5 .. 8 : codec.obs.v[2][i] = 1
    /\ codec.out = codec.states

\* ----------------------------------------------------------- SpecLQR
\* lqr_fin(T, Fm, fv, Cm, cv) for dX = dU = 1: Fm = <<a, b>> (x' = a x + b u),
\* Cm a 2x2 matrix, cv a pair, the per-timestep outputs sequences of length T
\* (index t + 1).  Index 1 of a row or column is the state, index 2 the action.
\* scipy's Cholesky factor of the 1x1 block [q] is its square root, which
\* exists only for q > 0; the two triangular solves divide by it twice, that
\* is by q.
Zeros(T) == [i \in 1 .. T |-> Zero]
Zeros2(T) == [i \in 1 .. T |-> <<Zero, Zero>>]
Zeros22(T) == [i \in 1 .. T |-> << <<Zero, Zero>>, <<Zero, Zero>> >>]

lqr_fin_begin(T, Fm, fv, Cm, cv) ==
    [pc |-> IF T - 1 >= 0 THEN "loop" ELSE "done",
     T |-> T, Fm |-> Fm, fv |-> fv, Cm |-> Cm, cv |-> cv, t |-> T - 1,
     Vxx |-> Zeros(T), Vx |-> Zeros(T), Qtt |-> Zeros22(T), Qt |-> Zeros2(T),
     K |-> Zeros(T), k |-> Zeros(T)]

Symmetrize(M) ==
    << <<RHalf(RAdd(M[1][1], M[1][1])), RHalf(RAdd(M[1][2], M[2][1]))>>,
       <<RHalf(RAdd(M[2][1], M[1][2])), RHalf(RAdd(M[2][2], M[2][2]))>> >>

\* One pass of the backward loop (lines 51-87) at l.t; future says whether the
\* value function of the next time step is added in.
lqr_fin_pass(l, future) ==
    LET i == l.t + 1
        Qtt0 == IF future
                THEN [r \in 1 .. 2 |-> [c \in 1 .. 2 |->
                        RAdd(l.Cm[r][c],
                             RMul(RMul(l.Fm[r], l.Vxx[i + 1]), l.Fm[c]))]]
                ELSE l.Cm
        Qt0 == IF future
               THEN [r \in 1 .. 2 |->
                       RAdd(l.cv[r],
                            RMul(l.Fm[r],
                                 RAdd(l.Vx[i + 1], RMul(l.Vxx[i + 1], l.fv))))]
               ELSE l.cv
        Qtt1 == Symmetrize(Qtt0)
        inv_term == Qtt1[2][2]
        k_term == Qt0[2]
        K_term == Qtt1[2][1]
    IN  IF ~RGt(inv_term, Zero)
        THEN [l EXCEPT !.pc = "raised", !.Qtt[i] = Qtt1, !.Qt[i] = Qt0]
        ELSE LET k1 == RNeg(RDiv(k_term, inv_term))
                 K1 == RNeg(RDiv(K_term, inv_term))
                 Vxx1 == RAdd(Qtt1[1][1], RMul(Qtt1[1][2], K1))
                 Vx1 == RAdd(Qt0[1], RMul(Qtt1[1][2], k1))
             IN  [l EXCEPT !.pc = IF l.t - 1 >= 0 THEN "loop" ELSE "done",
                           !.t = l.t - 1,
                           !.Qtt[i] = Qtt1, !.Qt[i] = Qt0,
                           !.k[i] = k1, !.K[i] = K1,
                           !.Vxx[i] = RHalf(RAdd(Vxx1, Vxx1)), !.Vx[i] = Vx1]

\* Variant of lqr_fin_iter: the next step's value function is never added.
lqr_fin_pass_nofuture(l) == lqr_fin_pass(l, FALSE)

lqr_fin_iter(l) == lqr_fin_pass(l, l.t < l.T - 1)

LqrInts == {Rat(0, 1), Rat(1, 1)}
LqrDiag == {Rat(0, 1), Rat(1, 1), Rat(2, 1)}

InitLQR ==
    /\ gs = MkGrid(1, 1, <<>>)
    /\ eps = Zero
    /\ frameskip = None
    /\ zero_reward = FALSE
    /\ terminate_on_reward = FALSE
    /\ one_hot = FALSE
    /\ coordinatewise = FALSE
    /\ eyes = FALSE
    /\ state = None
    /\ ret = NoRet
    /\ tm = Idle
    /\ codec = Idle
    /\ \E T \in 1 .. MaxT :
       \E a \in LqrInts, b \in LqrInts, fv \in LqrInts :
       \E cxx \in LqrInts, cxu \in LqrInts, cux \in LqrInts, cuu \in LqrDiag :
       \E cx \in LqrInts, cu \in LqrInts :
          lqr = lqr_fin_begin(T, <<a, b>>, fv,
                              << <<cxx, cxu>>, <<cux, cuu>> >>, <<cx, cu>>)

LqrStep ==
    /\ lqr.pc = "loop"
    /\ lqr' = lqr_fin_iter(lqr)
    /\ UNCHANGED <<gs, eps, frameskip, zero_reward, terminate_on_reward,
                   one_hot, coordinatewise, eyes, state, ret, tm, codec>>

NextLQR == LqrStep

SpecLQR == InitLQR /\ [][NextLQR]_vars

\* ----------------------------------------------------------------- C10
\* The instance of the scenario.
C10_Instance ==
    /\ lqr.T = 2
    /\ lqr.Fm = <<One, One>>
    /\ lqr.fv = Zero
    /\ lqr.Cm = << <<One, Zero>>, <<Zero, One>> >>
    /\ lqr.cv = <<Zero, Zero>>

\* C10: for Fm = [[1, 1]], fv = 0, Cm = diag(1, 1), cv = 0, T = 2, lqr_fin
\* returns K[1] = 0 and k[1] = 0 (the last time step uses only Cm and cv),
\* K[0] < 0, and Vxx[t] positive semi-definite for t = 0, 1 (a 1x1 matrix is
\* symmetric; it is positive semi-definite when its entry is >= 0).
C10_LqrScenario ==
    C10_Instance =>
       /\ lqr.pc # "raised"
       /\ lqr.pc = "done" =>
             /\ lqr.K[2] = Zero
             /\ lqr.k[2] = Zero
             /\ lqr.Qtt[2] = lqr.Cm
             /\ lqr.Qt[2] = lqr.cv
             /\ RGt(Zero, lqr.K[1])
             /\ \A i \in 1 .. 2 : ~RGt(Zero, lqr.Vxx[i])

C10_Witness ==
    /\ C10_Instance
    /\ lqr.pc = "done"
    /\ lqr.K[1] = Rat(-1, 2)
    /\ lqr.Vxx[1] = Rat(3, 2)

====
